---- MODULE Spec2Model ----
(***************************************************************************)
(* A model of t212-finanzblick-sync: the paginated fetchers of the         *)
(* Trading 212 API (the client class and the single-file script), the      *)
(* TransactionFactory normalizer, the Transaction model and the            *)
(* Finanzblick CSV exporter.                                               *)
(*                                                                         *)
(* Python values are modelled as follows.  None is the string None below;  *)
(* a float is a sign-magnitude record [neg, mag] with a natural magnitude  *)
(* (whole currency units), so that -0.0 and 0.0 are different values with  *)
(* the same numeric value, as in IEEE 754; a dict is a function from its   *)
(* keys; a list is a sequence.                                             *)
(***************************************************************************)
EXTENDS Integers, Sequences, FiniteSets, TLC

VARIABLES
    \* ---- the paginated fetcher (one call of _fetch_paginated / fetch_all_items)
    impl,            \* "client": Trading212APIClient, "script": t212-finanzblick-sync.py
    endpoint,        \* the endpoint argument
    fpc,             \* "loop", "done" (loop left), "returned"
    items,           \* the local list items
    next_page_path,  \* the client's loop variable
    cursor,          \* the script's loop variable
    requests,        \* the GET requests issued so far, in order
    responses,       \* what the server did with each request, in order
    log,             \* "request" and "sleep" events, in order
    fetched,         \* the value returned to the caller, None before the return
    \* ---- the normalizer (one call of TransactionFactory.create_all_transactions)
    now,             \* what datetime.now() returns
    orders,          \* the raw orders
    dividends,       \* the raw dividends
    transactions,    \* the raw cash transactions
    npc,             \* "start", "returned", "raised"
    all_transactions,\* the list returned, <<>> before the return
    \* ---- one Transaction and its row
    tx,              \* a Transaction
    rpc,             \* "new", "row", "formatted"
    row,             \* tx.to_finanzblick_row()
    betrag_text,     \* the row's Betrag as _format_german_number writes it
    \* ---- the exporter (two calls of FinanzblickCSVExporter.export)
    to_export,       \* the list the caller passes to export()
    epc,             \* "build", "second", "end"
    file,            \* the output file: NoFile, or what the last to_csv wrote
    writes,          \* how many times the output file was opened for writing
    calls,           \* one record per call of export(): argument, file before
                     \* and after, return value
    \* ---- the application (one run of main.py: Trading212SyncApp().run())
    keeenv,          \* what the .keeenv file and the KeePass database hold
    environ,         \* os.environ: the two credential variables
    apc,             \* "start", "secrets", "key", "returned", "raised", "exited"
    api_key,         \* self.api_key
    stdout,          \* the lines printed, in order
    exit_code,       \* the value run() returned, NoCode when it has not returned
    exception,       \* the exception run() raised, None when it has not raised
    status           \* the exit status of the process, NoCode while it runs

fetch_vars == <<impl, endpoint, fpc, items, next_page_path, cursor,
                requests, responses, log, fetched>>
norm_vars == <<now, orders, dividends, transactions, npc, all_transactions>>
row_vars == <<tx, rpc, row, betrag_text>>
export_vars == <<to_export, epc, file, writes, calls>>
app_vars == <<keeenv, environ, apc, api_key, stdout, exit_code, exception, status>>

vars == <<fetch_vars, norm_vars, row_vars, export_vars, app_vars>>

----------------------------------------------------------------------------
(* Bounds of the model *)

\* the server's chain of pages has at most MaxPages pages
MaxPages == 3
\* a page carries at most MaxItems items
MaxItems == 2
\* the caller's list has at most MaxTx transactions
MaxTx == 3
\* the raw records have at most MaxRecords records, the three lists together
MaxRecords == 2

----------------------------------------------------------------------------
(* Python values *)

None == "<None>"

\* the mutant of Truthy: a test against None alone, "" taken as a value
Truthy_NotNone(v) == v # None

\* truthiness of a string-or-None value: None and "" are falsy
Truthy(v) == v # None /\ v # ""

RECURSIVE Concat(_)
\* the concatenation of a sequence of sequences
Concat(ss) == IF ss = <<>> THEN <<>> ELSE Head(ss) \o Concat(Tail(ss))

----------------------------------------------------------------------------
(* The server, seen from the fetcher: a black box that answers the k-th     *)
(* request of a fetch with one of the behaviours below.                     *)

CLIENT_BASE_URL == "https://live.trading212.com"
SCRIPT_BASE_URL == "https://live.trading212.com/api/v0"
DEFAULT_PAGE_SIZE == 50

ClientEndpoints == { "/api/v0/equity/history/orders",
                     "/api/v0/history/dividends",
                     "/api/v0/history/transactions" }
ScriptEndpoints == { "/equity/history/orders",
                     "/history/dividends",
                     "/history/transactions" }

\* the j-th raw item of page k
Item(k, j) == 10 * k + j

\* the item lists page k can carry
PageLists(k) == { [j \in 1..n |-> Item(k, j)] : n \in 0..MaxItems }

\* the continuation markers the response to request k can carry: a complete
\* next-page path under nextPagePath, a cursor token under next
PathOf(k) == "/api/v0/page?limit=50&cursor=c" \o ToString(k + 1)
TokenOf(k) == "c" \o ToString(k + 1)

\* (nextPagePath, next) of a JSON object: absent/null, empty, or a marker.
\* The chain of pages is finite: page MaxPages carries no marker.
MarkerPairs(k) ==
    { <<None, None>>, <<"", None>>, <<None, "">> }
    \cup (IF k < MaxPages
          THEN { <<PathOf(k), None>>, <<None, TokenOf(k)>>,
                 <<PathOf(k), TokenOf(k)>> }
          ELSE {})

\* the value under "items": absent, null (or another value extend() rejects),
\* or a list
ItemsVals(k) ==
    { [type |-> "absent", val |-> <<>>], [type |-> "null", val |-> <<>>] }
    \cup { [type |-> "list", val |-> l] : l \in PageLists(k) }

NoItems == [type |-> "absent", val |-> <<>>]

\* requests.get raised (transport error)
TransportError ==
    [outcome |-> "exception", status_code |-> 0, body |-> "n/a",
     items |-> NoItems, nextPagePath |-> None, next |-> None]
\* a response whose status is not 200
HttpError ==
    [outcome |-> "response", status_code |-> 500, body |-> "n/a",
     items |-> NoItems, nextPagePath |-> None, next |-> None]
\* status 200, body not valid JSON: response.json() raises
InvalidJson ==
    [outcome |-> "response", status_code |-> 200, body |-> "invalid",
     items |-> NoItems, nextPagePath |-> None, next |-> None]
\* status 200, body valid JSON but not an object: data.get raises
NotAnObject ==
    [outcome |-> "response", status_code |-> 200, body |-> "notdict",
     items |-> NoItems, nextPagePath |-> None, next |-> None]
\* status 200, body a JSON object
JsonObjects(k) ==
    { [outcome |-> "response", status_code |-> 200, body |-> "dict",
       items |-> iv, nextPagePath |-> m[1], next |-> m[2]]
      : iv \in ItemsVals(k), m \in MarkerPairs(k) }

ServerBehaviours(k) ==
    { TransportError, HttpError, InvalidJson, NotAnObject } \cup JsonObjects(k)

----------------------------------------------------------------------------
(* The steps of the try block of both fetchers *)

\* data.get("items", []): the default [] only when the key is absent
GetItems(resp) ==
    IF resp.items.type = "absent" THEN [type |-> "list", val |-> <<>>]
    ELSE resp.items

\* response.status_code != 200
StatusNotOk(resp) == resp.status_code # 200

\* the mutant of BodyRaises: a null under "items" read as an empty list
BodyRaises_NullAsEmpty(resp) ==
    \/ resp.body = "invalid"
    \/ resp.body = "notdict"

\* response.json(), data.get("items", []) or items.extend(current_items) raises
BodyRaises(resp) ==
    \/ resp.body = "invalid"
    \/ resp.body = "notdict"
    \/ GetItems(resp).type # "list"

\* items.extend(current_items)
Extend(its, resp) == its \o GetItems(resp).val

\* the client reads nextPagePath only
ClientMarker(resp) == resp.nextPagePath

\* the script reads nextPagePath and, when that is falsy, next
ScriptMarker(resp) ==
    IF Truthy(resp.nextPagePath) THEN resp.nextPagePath ELSE resp.next

\* the request the client issues: the path appended to the base URL
ClientRequest ==
    [url |-> CLIENT_BASE_URL \o next_page_path, limit |-> None, cursor |-> None]

\* the request the script issues: always the endpoint, the marker as the
\* cursor parameter
ScriptRequest ==
    [url |-> SCRIPT_BASE_URL \o endpoint, limit |-> ToString(DEFAULT_PAGE_SIZE),
     cursor |-> IF Truthy(cursor) THEN cursor ELSE None]

\* time.sleep follows requests.get inside the try block: it is skipped when
\* requests.get raises
EventsOf(resp) ==
    IF resp.outcome = "exception" THEN <<"request">> ELSE <<"request", "sleep">>

----------------------------------------------------------------------------
(* Trading212APIClient._fetch_paginated *)

FetchInitClient ==
    /\ impl = "client"
    /\ endpoint \in ClientEndpoints
    /\ fpc = "loop"
    /\ items = <<>>
    /\ next_page_path = endpoint \o "?limit=" \o ToString(DEFAULT_PAGE_SIZE)
    /\ cursor = None
    /\ requests = <<>>
    /\ responses = <<>>
    /\ log = <<>>
    /\ fetched = None

\* one iteration of "while next_page_path:"
ClientIteration(resp) ==
    /\ impl = "client"
    /\ fpc = "loop"
    /\ Truthy(next_page_path)
    /\ requests' = Append(requests, ClientRequest)
    /\ responses' = Append(responses, resp)
    /\ log' = log \o EventsOf(resp)
    /\ IF resp.outcome = "exception" \/ StatusNotOk(resp) \/ BodyRaises(resp)
       THEN /\ fpc' = "done"
            /\ UNCHANGED <<items, next_page_path>>
       ELSE /\ items' = Extend(items, resp)
            /\ next_page_path' = ClientMarker(resp)
            /\ fpc' = "loop"
    /\ UNCHANGED <<impl, endpoint, cursor, fetched>>
    /\ UNCHANGED <<norm_vars, row_vars, export_vars, app_vars>>

\* the loop condition is false
ClientLoopExit ==
    /\ impl = "client"
    /\ fpc = "loop"
    /\ ~Truthy(next_page_path)
    /\ fpc' = "done"
    /\ UNCHANGED <<impl, endpoint, items, next_page_path, cursor,
                   requests, responses, log, fetched>>
    /\ UNCHANGED <<norm_vars, row_vars, export_vars, app_vars>>

----------------------------------------------------------------------------
(* fetch_all_items of t212-finanzblick-sync.py *)

FetchInitScript ==
    /\ impl = "script"
    /\ endpoint \in ScriptEndpoints
    /\ fpc = "loop"
    /\ items = <<>>
    /\ next_page_path = None
    /\ cursor = None
    /\ requests = <<>>
    /\ responses = <<>>
    /\ log = <<>>
    /\ fetched = None

\* one iteration of "while True:"
ScriptIteration(resp) ==
    /\ impl = "script"
    /\ fpc = "loop"
    /\ requests' = Append(requests, ScriptRequest)
    /\ responses' = Append(responses, resp)
    /\ log' = log \o EventsOf(resp)
    /\ IF resp.outcome = "exception" \/ StatusNotOk(resp) \/ BodyRaises(resp)
       THEN /\ fpc' = "done"
            /\ UNCHANGED <<items, cursor>>
       ELSE /\ items' = Extend(items, resp)
            /\ cursor' = ScriptMarker(resp)
            /\ fpc' = IF Truthy(ScriptMarker(resp)) THEN "loop" ELSE "done"
    /\ UNCHANGED <<impl, endpoint, next_page_path, fetched>>
    /\ UNCHANGED <<norm_vars, row_vars, export_vars, app_vars>>

\* "return items", of both fetchers
FetchReturn ==
    /\ fpc = "done"
    /\ fpc' = "returned"
    /\ fetched' = items
    /\ UNCHANGED <<impl, endpoint, items, next_page_path, cursor,
                   requests, responses, log>>
    /\ UNCHANGED <<norm_vars, row_vars, export_vars, app_vars>>

----------------------------------------------------------------------------
(* Python floats, as sign and magnitude *)

\* float(n) of an integer n
Float(n) == [neg |-> n < 0, mag |-> IF n < 0 THEN -n ELSE n]

\* the numeric value of a float: -0.0 and 0.0 are both 0
Value(f) == IF f.neg THEN -f.mag ELSE f.mag

\* abs(f)
Abs(f) == [neg |-> FALSE, mag |-> f.mag]

\* -f
Minus(f) == [neg |-> ~f.neg, mag |-> f.mag]

\* a * b
Times(a, b) == [neg |-> a.neg # b.neg, mag |-> a.mag * b.mag]

\* str(f), as an f-string renders a float
PyStr(f) == (IF f.neg THEN "-" ELSE "") \o ToString(f.mag) \o ".0"

\* an Optional[float] field left at its default None
NoFloat == [none |-> TRUE]

----------------------------------------------------------------------------
(* JSON values of a raw record.  A raw record is a function from its keys;  *)
(* a key the record does not have is mapped to JAbsent.                     *)

JAbsent == [t |-> "absent"]
JNull == [t |-> "null"]
\* a JSON string; for a date field s is the string cut into tokens
JStr(s) == [t |-> "str", s |-> s]
\* a JSON number
JNum(n) == [t |-> "num", n |-> n]

\* dict.get(key, default); dict.get(key) is DictGet(raw, key, JNull)
DictGet(raw, key, default) ==
    IF raw[key].t = "absent" THEN default ELSE raw[key]

\* float(v): TypeError on None, ValueError on a string that is no number
\* (the strings of the model are not numbers)
ToFloat(v) ==
    [ok |-> v.t = "num", val |-> IF v.t = "num" THEN Float(v.n) ELSE Float(0)]

\* {v} inside an f-string
FormatValue(v) ==
    CASE v.t = "str" -> v.s
      [] v.t = "num" -> ToString(v.n)
      [] OTHER -> "None"

----------------------------------------------------------------------------
(* datetime values: [y, m, d, h] *)

Pad2(n) == IF n < 10 THEN "0" \o ToString(n) ELSE ToString(n)

\* strftime("%d.%m.%Y")
Strftime(dt) == Pad2(dt.d) \o "." \o Pad2(dt.m) \o "." \o ToString(dt.y)

\* the date tokens and time tokens datetime.fromisoformat reads in the model
IsoDateTokens ==
    [s \in {"2024-01-31", "2024-02-01"} |->
        IF s = "2024-01-31" THEN [y |-> 2024, m |-> 1, d |-> 31]
                            ELSE [y |-> 2024, m |-> 2, d |-> 1]]
IsoTimeTokens ==
    [s \in {"T10:00:00", "T15:30:00"} |-> IF s = "T10:00:00" THEN 10 ELSE 15]

\* iso_date_str.split(".")[0]: the tokens before the first "."
RECURSIVE BeforeDot(_)
BeforeDot(toks) ==
    IF toks = <<>> \/ Head(toks) = "." THEN <<>>
    ELSE <<Head(toks)>> \o BeforeDot(Tail(toks))

\* .replace("Z", "")
RECURSIVE RemoveZ(_)
RemoveZ(toks) ==
    IF toks = <<>> THEN <<>>
    ELSE (IF Head(toks) = "Z" THEN <<>> ELSE <<Head(toks)>>) \o RemoveZ(Tail(toks))

\* datetime.fromisoformat(clean_date): a date, or a date and a time
FromIsoFormat(toks) ==
    IF Len(toks) = 1 /\ toks[1] \in DOMAIN IsoDateTokens
    THEN [ok |-> TRUE,
          val |-> [y |-> IsoDateTokens[toks[1]].y, m |-> IsoDateTokens[toks[1]].m,
                   d |-> IsoDateTokens[toks[1]].d, h |-> 0]]
    ELSE IF /\ Len(toks) = 2 /\ toks[1] \in DOMAIN IsoDateTokens
            /\ toks[2] \in DOMAIN IsoTimeTokens
    THEN [ok |-> TRUE,
          val |-> [y |-> IsoDateTokens[toks[1]].y, m |-> IsoDateTokens[toks[1]].m,
                   d |-> IsoDateTokens[toks[1]].d, h |-> IsoTimeTokens[toks[2]]]]
    ELSE [ok |-> FALSE, val |-> [y |-> 0, m |-> 0, d |-> 0, h |-> 0]]

----------------------------------------------------------------------------
(* models/transaction.py *)

BUY == "buy"
SELL == "sell"
DIVIDEND == "dividend"
DEPOSIT == "deposit"
WITHDRAWAL == "withdrawal"
INTEREST == "interest"
\* TransactionType.OTHER (OTHER is a keyword of TLA+)
OTHER_TYPE == "other"

TransactionType == {BUY, SELL, DIVIDEND, DEPOSIT, WITHDRAWAL, INTEREST, OTHER_TYPE}

\* Transaction.formatted_date
formatted_date(t) == Strftime(t.date)

\* Transaction.booking_text
booking_text(t) ==
    CASE t.transaction_type = BUY -> "Wertpapierkauf"
      [] t.transaction_type = SELL -> "Wertpapierverkauf"
      [] t.transaction_type = DIVIDEND -> "Dividende"
      [] t.transaction_type = DEPOSIT -> "Einlage"
      [] t.transaction_type = WITHDRAWAL -> "Auszahlung / Kartennutzung"
      [] t.transaction_type = INTEREST -> "Zinsen"
      [] t.transaction_type = OTHER_TYPE -> "Sonstiges"
      [] OTHER -> "Sonstiges"

\* the mutant of signed_amount: the sign applied to the stored amount as it is
signed_amount_NoAbs(t) ==
    IF t.transaction_type \in {BUY, WITHDRAWAL} THEN Minus(t.amount)
    ELSE t.amount

\* Transaction.signed_amount
signed_amount(t) ==
    IF t.transaction_type \in {BUY, WITHDRAWAL} THEN Minus(Abs(t.amount))
    ELSE Abs(t.amount)

\* The key of the recipient in the dict to_finanzblick_row returns.  The
\* source file spells it with the bytes E2 88 9A C2 A7 ("a" with diaeresis
\* read as Mac Roman and written back as UTF-8) where the exporter's COLUMNS
\* has the two bytes C3 A4.
ROW_KEY_EMPFAENGER == "Empf[E2 88 9A C2 A7]nger"

RowKeys == <<"Buchungsdatum", "Wertstellungsdatum", "Auswertungsdatum",
             ROW_KEY_EMPFAENGER, "Verwendungszweck", "Buchungstext",
             "Betrag", "IBAN", "BIC">>

\* Transaction.to_finanzblick_row: a dict; Betrag is a float, the rest strings
to_finanzblick_row(t) ==
    [k \in {RowKeys[i] : i \in 1..Len(RowKeys)} |->
        CASE k \in {"Buchungsdatum", "Wertstellungsdatum", "Auswertungsdatum"}
                -> formatted_date(t)
          [] k = ROW_KEY_EMPFAENGER -> t.recipient
          [] k = "Verwendungszweck" -> t.description
          [] k = "Buchungstext" -> booking_text(t)
          [] k = "Betrag" -> signed_amount(t)
          [] OTHER -> ""]

----------------------------------------------------------------------------
(* trading212/transaction_factory.py *)

\* Transaction(...): the dataclass constructor
Transaction(date, transaction_type, amount, description, recipient, ticker, quantity, price) ==
    [date |-> date, transaction_type |-> transaction_type, amount |-> amount,
     description |-> description, recipient |-> recipient,
     ticker |-> ticker, quantity |-> quantity, price |-> price]

\* the mutant of parse_date: the fractional seconds are not cut off before
\* datetime.fromisoformat
parse_date_NoSplit(iso_date_str) ==
    IF iso_date_str.t # "str" THEN now
    ELSE LET parsed == FromIsoFormat(RemoveZ(iso_date_str.s))
         IN  IF parsed.ok THEN parsed.val ELSE now

\* TransactionFactory._parse_date: the current time when the argument is not
\* a string (AttributeError) or does not parse (ValueError)
parse_date(iso_date_str) ==
    IF iso_date_str.t # "str" THEN now
    ELSE LET parsed == FromIsoFormat(RemoveZ(BeforeDot(iso_date_str.s)))
         IN  IF parsed.ok THEN parsed.val ELSE now

NoTransaction ==
    Transaction([y |-> 0, m |-> 0, d |-> 0, h |-> 0], OTHER_TYPE, Float(0),
                "", "", JNull, NoFloat, NoFloat)

\* TransactionFactory.from_order: [ok, tx], ok false when float() raises
from_order(order) ==
    LET date == parse_date(DictGet(order, "dateCreated", JNull))
        ticker == DictGet(order, "ticker", JStr("Unknown"))
        quantity == ToFloat(DictGet(order, "filledQuantity", JNum(0)))
        price == ToFloat(DictGet(order, "fillPrice", JNum(0)))
        direction == DictGet(order, "direction", JNull)
        total_amount == Times(quantity.val, price.val)
        transaction_type == IF direction = JStr("BUY") THEN BUY ELSE SELL
        description == "Order " \o FormatValue(ticker) \o " "
                       \o PyStr(quantity.val) \o " Stk @ " \o PyStr(price.val)
    IN  IF ~quantity.ok \/ ~price.ok
        THEN [ok |-> FALSE, tx |-> NoTransaction]
        ELSE [ok |-> TRUE,
              tx |-> Transaction(date, transaction_type, total_amount,
                                 description, "Trading 212 Markets",
                                 ticker, quantity.val, price.val)]

\* TransactionFactory.from_dividend
from_dividend(dividend) ==
    LET date == parse_date(DictGet(dividend, "paidOn", JNull))
        amount == ToFloat(DictGet(dividend, "amount", JNum(0)))
        ticker == DictGet(dividend, "ticker", JStr("DIV"))
        description == "Dividende " \o FormatValue(ticker)
    IN  IF ~amount.ok
        THEN [ok |-> FALSE, tx |-> NoTransaction]
        ELSE [ok |-> TRUE,
              tx |-> Transaction(date, DIVIDEND, amount.val, description,
                                 "Trading 212 (Dividende)", ticker,
                                 NoFloat, NoFloat)]

\* the mutant of type_mapping: the fallback describes the transaction by its
\* raw type
type_mapping_TypeAsText(type_str) ==
    CASE type_str = JStr("DEPOSIT") -> <<DEPOSIT, "Einzahlung auf Verrechnungskonto">>
      [] type_str = JStr("WITHDRAWAL") -> <<WITHDRAWAL, "Abhebung oder Kartenzahlung">>
      [] type_str = JStr("INTEREST") -> <<INTEREST, "Zinsen auf Guthaben">>
      [] OTHER -> <<OTHER_TYPE, FormatValue(type_str)>>

\* type_mapping.get(type_str, (TransactionType.OTHER, "Transaktion"))
type_mapping(type_str) ==
    CASE type_str = JStr("DEPOSIT") -> <<DEPOSIT, "Einzahlung auf Verrechnungskonto">>
      [] type_str = JStr("WITHDRAWAL") -> <<WITHDRAWAL, "Abhebung oder Kartenzahlung">>
      [] type_str = JStr("INTEREST") -> <<INTEREST, "Zinsen auf Guthaben">>
      [] OTHER -> <<OTHER_TYPE, "Transaktion">>

\* TransactionFactory.from_transaction
from_transaction(transaction) ==
    LET date == parse_date(DictGet(transaction, "date", JNull))
        amount == ToFloat(DictGet(transaction, "amount", JNum(0)))
        type_str == DictGet(transaction, "type", JNull)
        mapped == type_mapping(type_str)
    IN  IF ~amount.ok
        THEN [ok |-> FALSE, tx |-> NoTransaction]
        ELSE [ok |-> TRUE,
              tx |-> Transaction(date, mapped[1], Abs(amount.val), mapped[2],
                                 "Trading 212 Cash", JNull, NoFloat, NoFloat)]

\* order.get("status") == "FILLED"
IsFilled(order) == DictGet(order, "status", JNull) = JStr("FILLED")

\* the mutant of Appended: the dividends processed before the orders
Appended_DividendsFirst(os, ds, ts) ==
    [i \in 1..Len(ds) |-> from_dividend(ds[i])]
    \o Concat([i \in 1..Len(os) |->
                  IF IsFilled(os[i]) THEN <<from_order(os[i])>> ELSE <<>>])
    \o [i \in 1..Len(ts) |-> from_transaction(ts[i])]

\* what the three loops of create_all_transactions append, in order: one
\* from_order per FILLED order, one from_dividend per dividend, one
\* from_transaction per cash transaction
Appended(os, ds, ts) ==
    Concat([i \in 1..Len(os) |->
                IF IsFilled(os[i]) THEN <<from_order(os[i])>> ELSE <<>>])
    \o [i \in 1..Len(ds) |-> from_dividend(ds[i])]
    \o [i \in 1..Len(ts) |-> from_transaction(ts[i])]

\* TransactionFactory.create_all_transactions: [raised, result].  The first
\* from_* call that raises ends the call, and the list built so far is lost
\* with it.
create_all_transactions(os, ds, ts) ==
    LET made == Appended(os, ds, ts)
    IN  IF \E i \in 1..Len(made) : ~made[i].ok
        THEN [raised |-> TRUE, result |-> <<>>]
        ELSE [raised |-> FALSE, result |-> [i \in 1..Len(made) |-> made[i].tx]]

----------------------------------------------------------------------------
(* exporters/finanzblick_exporter.py *)

\* the recipient column as FinanzblickCSVExporter.COLUMNS spells it
COL_EMPFAENGER == "Empf[C3 A4]nger"

COLUMNS == <<"Buchungsdatum", "Wertstellungsdatum", "Auswertungsdatum",
             COL_EMPFAENGER, "Verwendungszweck", "Buchungstext",
             "Betrag", "IBAN", "BIC">>

\* the days pd.to_datetime can be given in the model
Calendar ==
    { [y |-> 2024, m |-> m, d |-> d] : m \in 1..3, d \in {1, 15, 31} }

\* pd.to_datetime(s, format="%d.%m.%Y"): the day the string spells
to_datetime(s) == CHOOSE c \in Calendar : Strftime(c) = s

\* the order of Timestamps
Before(c1, c2) ==
    \/ c1.y < c2.y
    \/ c1.y = c2.y /\ c1.m < c2.m
    \/ c1.y = c2.y /\ c1.m = c2.m /\ c1.d < c2.d

\* the value of the temp_date column of a row
temp_date(r) == to_datetime(r["Buchungsdatum"])

Orderings(n) ==
    { p \in [1..n -> 1..n] : \A i, j \in 1..n : i # j => p[i] # p[j] }

\* the mutant of sort_values: the rows left in the order they came in
sort_values_Unsorted(rows) == { rows }

\* df.sort_values(by="temp_date", ascending=False).  The sort is pandas'
\* default kind, quicksort, which is not a stable sort: the order it leaves
\* rows of equal date in depends on the number of rows and on the build, so
\* every descending order of the rows is a possible result.
sort_values(rows) ==
    { [i \in 1..Len(rows) |-> rows[p[i]]] :
        p \in { q \in Orderings(Len(rows)) :
                  \A i \in 1..(Len(rows) - 1) :
                      ~Before(temp_date(rows[q[i]]), temp_date(rows[q[i + 1]])) } }

\* FinanzblickCSVExporter._format_german_number:
\* "{:.2f}".format(value).replace(".", ",")
format_german_number(value) ==
    (IF value.neg THEN "-" ELSE "") \o ToString(value.mag) \o ",00"

\* a cell of the frame after "if col not in df.columns: df[col] = ''" and
\* df = df[self.COLUMNS]
Cell(r, col) == IF col \in DOMAIN r THEN r[col] ELSE ""

\* a line of the CSV file: the cells in the order of COLUMNS, Betrag formatted
CsvLine(r) ==
    [i \in 1..Len(COLUMNS) |->
        IF COLUMNS[i] = "Betrag" THEN format_german_number(Cell(r, "Betrag"))
        ELSE Cell(r, COLUMNS[i])]

\* what df.to_csv(..., index=False, sep=";", encoding="utf-8-sig") writes
CsvFile(rows) ==
    [encoding |-> "utf-8-sig", sep |-> ";", header |-> COLUMNS,
     lines |-> [i \in 1..Len(rows) |-> CsvLine(rows[i])]]

NoFile == [exists |-> FALSE]

\* the mutant of export: no check for an empty list, a file with the header
\* alone is written
export_NoGuard(ts) ==
    { [ret |-> TRUE, written |-> TRUE, content |-> CsvFile(sorted)] :
        sorted \in sort_values([i \in 1..Len(ts) |-> to_finanzblick_row(ts[i])]) }

\* FinanzblickCSVExporter.export: the possible outcomes [ret, written, content]
export(ts) ==
    IF ts = <<>>
    THEN { [ret |-> FALSE, written |-> FALSE, content |-> NoFile] }
    ELSE { [ret |-> TRUE, written |-> TRUE, content |-> CsvFile(sorted)] :
             sorted \in sort_values([i \in 1..Len(ts) |-> to_finanzblick_row(ts[i])]) }

----------------------------------------------------------------------------
(* app.py, main.py and the keepass package: the run of the application *)

CredentialVars == { "T212_API_KEY", "T212_API_SECRET" }

\* no exit code: run() has not returned, the process has not exited
NoCode == -1

\* what the process finds in os.environ under a variable: nothing, an empty
\* string, or a value
EnvValues(v) == { None, "", "env:" \o v }

\* what KeePassConfigLoader.load() and the KeePass database hold: no usable
\* .keeenv file, or a configuration whose database file exists or not, opens
\* or not, and holds a value for some of the variables the [env] section maps
NoConfig ==
    [config |-> FALSE, database |-> FALSE, opens |-> FALSE, entries |-> {}]
KeeEnvs ==
    { NoConfig }
    \cup { [config |-> TRUE, database |-> d, opens |-> o, entries |-> e]
             : d \in BOOLEAN, o \in BOOLEAN, e \in SUBSET CredentialVars }

\* KeePassSecretsManager.load_secrets: [ok, environ]
load_secrets(k, env) ==
    IF ~k.database \/ ~k.opens
    THEN [ok |-> FALSE, environ |-> env]
    ELSE [ok |-> TRUE,
          environ |-> [v \in CredentialVars |->
                          IF v \in k.entries THEN "keepass:" \o v ELSE env[v]]]

\* Trading212SyncApp._load_secrets: [ok, environ, printed]
app_load_secrets(k, env) ==
    IF ~k.config
    THEN [ok |-> TRUE, environ |-> env, printed |-> <<>>]
    ELSE [ok |-> load_secrets(k, env).ok,
          environ |-> load_secrets(k, env).environ,
          printed |-> <<"Found .keeenv configuration, loading secrets from KeePass...">>]

\* Trading212APIClient(*args): __init__ takes api_key and api_secret, both
\* required; a call with another number of arguments raises TypeError
Trading212APIClient(args) ==
    IF Len(args) # 2
    THEN [raised |-> "TypeError", headers |-> None]
    ELSE [raised |-> None,
          headers |-> "Basic base64(" \o args[1] \o ":" \o args[2] \o ")"]

\* run(), "if not self._load_secrets(): ... return 1"
LoadSecrets ==
    /\ apc = "start"
    /\ LET r == app_load_secrets(keeenv, environ)
       IN  /\ environ' = r.environ
           /\ IF r.ok
              THEN /\ stdout' = stdout \o r.printed
                   /\ apc' = "secrets"
                   /\ UNCHANGED exit_code
              ELSE /\ stdout' = stdout \o r.printed
                                   \o <<"Failed to load secrets.">>
                   /\ exit_code' = 1
                   /\ apc' = "returned"
    /\ UNCHANGED <<keeenv, api_key, exception, status>>
    /\ UNCHANGED <<fetch_vars, norm_vars, row_vars, export_vars>>

\* run(), "self.api_key = os.getenv(...); if not self.api_key: ... return 1"
GetApiKey ==
    /\ apc = "secrets"
    /\ api_key' = environ["T212_API_KEY"]
    /\ IF ~Truthy(api_key')
       THEN /\ stdout' = Append(stdout,
                  "ATTENTION: Please set the T212_API_KEY environment variable!")
            /\ exit_code' = 1
            /\ apc' = "returned"
       ELSE /\ apc' = "key"
            /\ UNCHANGED <<stdout, exit_code>>
    /\ UNCHANGED <<keeenv, environ, exception, status>>
    /\ UNCHANGED <<fetch_vars, norm_vars, row_vars, export_vars>>

\* run(), "client = Trading212APIClient(self.api_key)": one argument
CreateClient ==
    /\ apc = "key"
    /\ stdout' = Append(stdout, "=== Fetching data from Trading 212 ===")
    /\ LET client == Trading212APIClient(<<api_key>>)
       IN  IF client.raised # None
           THEN /\ exception' = client.raised
                /\ apc' = "raised"
           ELSE /\ apc' = "fetch"
                /\ UNCHANGED exception
    /\ UNCHANGED <<keeenv, environ, api_key, exit_code, status>>
    /\ UNCHANGED <<fetch_vars, norm_vars, row_vars, export_vars>>

\* main(): sys.exit(exit_code); an exception that leaves run() leaves main()
\* too, and the interpreter prints the traceback and exits with status 1
SysExit ==
    /\ apc \in {"returned", "raised"}
    /\ status' = IF apc = "returned" THEN exit_code ELSE 1
    /\ stdout' = IF apc = "returned" THEN stdout
                 ELSE Append(stdout, "Traceback: " \o exception)
    /\ apc' = "exited"
    /\ UNCHANGED <<keeenv, environ, api_key, exit_code, exception>>
    /\ UNCHANGED <<fetch_vars, norm_vars, row_vars, export_vars>>

----------------------------------------------------------------------------
(* The parts of the state a specification does not use *)

FetchIdle ==
    /\ impl = "none" /\ endpoint = None /\ fpc = "idle" /\ items = <<>>
    /\ next_page_path = None /\ cursor = None /\ requests = <<>>
    /\ responses = <<>> /\ log = <<>> /\ fetched = None

Clock == { [y |-> 2024, m |-> 3, d |-> 15, h |-> 12] }

NormIdle ==
    /\ now \in Clock /\ orders = <<>> /\ dividends = <<>> /\ transactions = <<>>
    /\ npc = "idle" /\ all_transactions = <<>>

RowIdle ==
    /\ tx = NoTransaction /\ rpc = "idle" /\ row = <<>> /\ betrag_text = ""

ExportIdle ==
    /\ to_export = <<>> /\ epc = "idle" /\ file = NoFile /\ writes = 0
    /\ calls = <<>>

AppIdle ==
    /\ keeenv = NoConfig /\ environ = [v \in CredentialVars |-> None]
    /\ apc = "idle" /\ api_key = None /\ stdout = <<>> /\ exit_code = NoCode
    /\ exception = None /\ status = NoCode

----------------------------------------------------------------------------
(* The fetcher called once, against every server *)

InitFetch ==
    /\ FetchInitClient \/ FetchInitScript
    /\ NormIdle /\ RowIdle /\ ExportIdle /\ AppIdle

NextFetch ==
    \/ \E resp \in ServerBehaviours(Len(requests) + 1) : ClientIteration(resp)
    \/ ClientLoopExit
    \/ \E resp \in ServerBehaviours(Len(requests) + 1) : ScriptIteration(resp)
    \/ FetchReturn

SpecFetch == InitFetch /\ [][NextFetch]_vars

----------------------------------------------------------------------------
(* The normalizer called once, on every list of raw records *)

\* "2024-01-31T10:00:00.000Z" and "2024-02-01T15:30:00Z", cut into tokens
IsoWithMillis == <<"2024-01-31", "T10:00:00", ".", "000", "Z">>
IsoPlain == <<"2024-02-01", "T15:30:00", "Z">>

RawOrders ==
    { [k \in {"status", "ticker", "filledQuantity", "fillPrice", "direction",
              "dateCreated"} |->
        CASE k = "status" -> s
          [] k = "ticker" -> JStr("AAPL")
          [] k = "filledQuantity" -> q
          [] k = "fillPrice" -> p
          [] k = "direction" -> d
          [] k = "dateCreated" -> JStr(IsoWithMillis)]
      : s \in {JStr("FILLED"), JStr("CANCELLED"), JAbsent},
        q \in {JNum(2), JNum(-3), JNull},
        p \in {JNum(5), JNum(-1)},
        d \in {JStr("BUY"), JStr("SELL")} }

RawDividends ==
    { [k \in {"ticker", "amount", "paidOn"} |->
        CASE k = "ticker" -> t
          [] k = "amount" -> a
          [] k = "paidOn" -> p]
      : t \in {JStr("KO"), JAbsent},
        a \in {JNum(4), JNum(-4), JStr("n/a"), JAbsent},
        p \in {JStr(IsoPlain), JNull, JAbsent} }

RawTransactions ==
    { [k \in {"type", "amount", "date"} |->
        CASE k = "type" -> t
          [] k = "amount" -> a
          [] k = "date" -> d]
      : t \in {JStr("DEPOSIT"), JStr("WITHDRAWAL"), JStr("INTEREST"),
               JStr("FEE"), JNull, JAbsent},
        a \in {JNum(50), JNum(-50)},
        d \in {JStr(IsoWithMillis), JStr(<<"yesterday">>)} }

SeqsUpTo(S, n) == UNION { [1..k -> S] : k \in 0..n }

InitNorm ==
    /\ now \in Clock
    /\ orders \in SeqsUpTo(RawOrders, MaxRecords)
    /\ dividends \in SeqsUpTo(RawDividends, MaxRecords - Len(orders))
    /\ transactions \in
           SeqsUpTo(RawTransactions, MaxRecords - Len(orders) - Len(dividends))
    /\ npc = "start"
    /\ all_transactions = <<>>
    /\ FetchIdle /\ RowIdle /\ ExportIdle /\ AppIdle

\* the call of create_all_transactions
Normalize ==
    /\ npc = "start"
    /\ LET r == create_all_transactions(orders, dividends, transactions)
       IN  /\ npc' = IF r.raised THEN "raised" ELSE "returned"
           /\ all_transactions' = r.result
    /\ UNCHANGED <<now, orders, dividends, transactions>>
    /\ UNCHANGED <<fetch_vars, row_vars, export_vars, app_vars>>

NextNorm == Normalize

SpecNorm == InitNorm /\ [][NextNorm]_vars

----------------------------------------------------------------------------
(* One Transaction turned into its row, for every Transaction *)

SampleTransactions ==
    { Transaction(dt, k, [neg |-> n, mag |-> g], "Verwendungszweck",
                  "Trading 212", JNull, NoFloat, NoFloat)
      : dt \in { [y |-> 2024, m |-> 1, d |-> 31, h |-> 10],
                 [y |-> 2024, m |-> 2, d |-> 1, h |-> 0] },
        k \in TransactionType,
        n \in BOOLEAN,
        g \in {0, 7, 1505} }

InitRow ==
    /\ tx \in SampleTransactions
    /\ rpc = "new"
    /\ row = <<>>
    /\ betrag_text = ""
    /\ FetchIdle /\ NormIdle /\ ExportIdle /\ AppIdle

\* tx.to_finanzblick_row()
ToRow ==
    /\ rpc = "new"
    /\ row' = to_finanzblick_row(tx)
    /\ rpc' = "row"
    /\ UNCHANGED <<tx, betrag_text>>
    /\ UNCHANGED <<fetch_vars, norm_vars, export_vars, app_vars>>

\* the exporter's _format_german_number applied to the row's Betrag
FormatBetrag ==
    /\ rpc = "row"
    /\ betrag_text' = format_german_number(row["Betrag"])
    /\ rpc' = "formatted"
    /\ UNCHANGED <<tx, row>>
    /\ UNCHANGED <<fetch_vars, norm_vars, export_vars, app_vars>>

NextRow == ToRow \/ FormatBetrag

SpecRow == InitRow /\ [][NextRow]_vars

----------------------------------------------------------------------------
(* The exporter called twice: the caller builds a list and exports it, then *)
(* rearranges or empties the list and exports again.                        *)

\* two transactions of the same day and content at different hours, one of
\* that day with another content, and one of the next day
ExportableTransactions ==
    { Transaction([y |-> 2024, m |-> 1, d |-> 31, h |-> 10], BUY, Float(1500),
                  "Order AAPL 10.0 Stk @ 150.0", "Trading 212 Markets",
                  JStr("AAPL"), Float(10), Float(150)),
      Transaction([y |-> 2024, m |-> 1, d |-> 31, h |-> 15], BUY, Float(1500),
                  "Order AAPL 10.0 Stk @ 150.0", "Trading 212 Markets",
                  JStr("AAPL"), Float(10), Float(150)),
      Transaction([y |-> 2024, m |-> 1, d |-> 31, h |-> 10], DIVIDEND, Float(-4),
                  "Dividende KO", "Trading 212 (Dividende)",
                  JStr("KO"), NoFloat, NoFloat),
      Transaction([y |-> 2024, m |-> 2, d |-> 1, h |-> 0], DIVIDEND, Float(-4),
                  "Dividende KO", "Trading 212 (Dividende)",
                  JStr("KO"), NoFloat, NoFloat) }

InitExport ==
    /\ to_export = <<>>
    /\ epc = "build"
    /\ file = NoFile
    /\ writes = 0
    /\ calls = <<>>
    /\ FetchIdle /\ NormIdle /\ RowIdle /\ AppIdle

\* the caller appends a transaction to its list
AddTransaction(t) ==
    /\ epc = "build"
    /\ Len(to_export) < MaxTx
    /\ to_export' = Append(to_export, t)
    /\ UNCHANGED <<epc, file, writes, calls>>
    /\ UNCHANGED <<fetch_vars, norm_vars, row_vars, app_vars>>

\* the caller rearranges its list between the two calls
Reorder(p) ==
    /\ epc = "second"
    /\ to_export' = [i \in 1..Len(to_export) |-> to_export[p[i]]]
    /\ to_export' # to_export
    /\ UNCHANGED <<epc, file, writes, calls>>
    /\ UNCHANGED <<fetch_vars, norm_vars, row_vars, app_vars>>

\* the caller empties its list between the two calls
Clear ==
    /\ epc = "second"
    /\ to_export # <<>>
    /\ to_export' = <<>>
    /\ UNCHANGED <<epc, file, writes, calls>>
    /\ UNCHANGED <<fetch_vars, norm_vars, row_vars, app_vars>>

\* exporter.export(to_export)
Export ==
    /\ epc \in {"build", "second"}
    /\ \E o \in export(to_export) :
          /\ file' = IF o.written THEN o.content ELSE file
          /\ writes' = IF o.written THEN writes + 1 ELSE writes
          /\ calls' = Append(calls, [arg |-> to_export, before |-> file,
                                     after |-> file', ret |-> o.ret,
                                     wrote |-> o.written])
    /\ epc' = IF epc = "build" THEN "second" ELSE "end"
    /\ UNCHANGED to_export
    /\ UNCHANGED <<fetch_vars, norm_vars, row_vars, app_vars>>

NextExport ==
    \/ \E t \in ExportableTransactions : AddTransaction(t)
    \/ \E p \in Orderings(Len(to_export)) : Reorder(p)
    \/ Clear
    \/ Export

SpecExport == InitExport /\ [][NextExport]_vars

----------------------------------------------------------------------------
(* The application run once, in every environment *)

InitApp ==
    /\ keeenv \in KeeEnvs
    /\ environ \in [CredentialVars -> UNION { EnvValues(v) : v \in CredentialVars }]
    /\ \A v \in CredentialVars : environ[v] \in EnvValues(v)
    /\ apc = "start"
    /\ api_key = None
    /\ stdout = <<>>
    /\ exit_code = NoCode
    /\ exception = None
    /\ status = NoCode
    /\ FetchIdle /\ NormIdle /\ RowIdle /\ ExportIdle

\* The statements of run() after the construction of the client (the three
\* fetches, create_all_transactions, export) are not steps of this
\* specification: CreateClient raises in every run that reaches it, and
\* ClientNeverConstructed below states that apc = "fetch" is never reached.
NextApp ==
    \/ LoadSecrets
    \/ GetApiKey
    \/ CreateClient
    \/ SysExit

SpecApp == InitApp /\ [][NextApp]_vars

----------------------------------------------------------------------------
(* Properties of the fetcher (checked under SpecFetch) *)

\* a 200 response whose body is a JSON object with a list under "items"
IsPage(resp) ==
    /\ resp.outcome = "response"
    /\ resp.status_code = 200
    /\ resp.body = "dict"
    /\ resp.items.type = "list"

\* the response carries a non-empty continuation marker in either dialect
HasMarker(resp) == Truthy(resp.nextPagePath) \/ Truthy(resp.next)

\* the items a response contributes when it is read as a page
PageItems(resp) == IF resp.items.type = "list" THEN resp.items.val ELSE <<>>

\* the items of the first n responses, in page order
ItemsOfPages(n) == Concat([k \in 1..n |-> PageItems(responses[k])])

\* the fetcher is going to issue another request
WillRequest == fpc = "loop" /\ (impl = "client" => Truthy(next_page_path))

\* every response so far is a page
AllPages == \A k \in 1..Len(responses) : IsPage(responses[k])

\* C1: pagination termination.  When every response is a 200 page and the
\* pages are linked by non-empty continuation markers, the last one carrying
\* none, the loop ends after exactly as many requests as there are pages and
\* returns the items of all pages in page order: no request follows a page
\* without a marker, and the loop does not end on a page that has one.
C1_PaginationTermination ==
    (AllPages /\ responses # <<>>) =>
        /\ \A k \in 1..(Len(responses) - 1) : HasMarker(responses[k])
        /\ ~WillRequest =>
              /\ ~HasMarker(responses[Len(responses)])
              /\ items = ItemsOfPages(Len(responses))
              /\ fpc = "returned" => fetched = items

\* The case of C1 that the code does satisfy: the same statement for chains
\* whose pages are linked by nextPagePath.
PathChainTermination ==
    (/\ AllPages /\ responses # <<>>
     /\ \A k \in 1..Len(responses) :
            Truthy(responses[k].next) => Truthy(responses[k].nextPagePath)) =>
        /\ \A k \in 1..(Len(responses) - 1) : HasMarker(responses[k])
        /\ ~WillRequest =>
              /\ ~HasMarker(responses[Len(responses)])
              /\ items = ItemsOfPages(Len(responses))
              /\ fpc = "returned" => fetched = items

PathChainWitness ==
    /\ AllPages
    /\ Len(responses) = MaxPages
    /\ \A k \in 1..Len(responses) : ~Truthy(responses[k].next)
    /\ fpc = "returned"
    /\ Len(fetched) > MaxPages

\* the failures the claim C2 lists: non-200 status, transport exception, a
\* body that is not valid JSON or has no usable items list
FailsAsClaimed(resp) ==
    \/ resp.outcome = "exception"
    \/ resp.status_code # 200
    \/ resp.body # "dict"
    \/ resp.items.type # "list"

\* the failures that end the loop: as above, but a JSON object without an
\* "items" key is read as an empty page
Fails(resp) ==
    \/ resp.outcome = "exception"
    \/ resp.status_code # 200
    \/ resp.body # "dict"
    \/ resp.items.type = "null"

\* C2 as stated: on any failure of page k, a missing items list included, the
\* loop stops at that page, issues no further request and returns the items of
\* pages 1..k-1.
C2_StopsOnAnyFailure ==
    \A k \in 1..Len(responses) :
        FailsAsClaimed(responses[k]) =>
            /\ k = Len(responses)
            /\ ~WillRequest
            /\ items = ItemsOfPages(k - 1)

\* C2, amended: on a non-200 status, a transport exception, a body that is not
\* valid JSON or not a JSON object, or an "items" value that is null (not
\* iterable) on page k, the loop stops at that page, issues no further request
\* and returns exactly the items of pages 1..k-1; nothing is raised to the
\* caller.  A JSON object without an "items" key counts as an empty page.
C2_StopsOnFailure ==
    \A k \in 1..Len(responses) :
        Fails(responses[k]) =>
            /\ k = Len(responses)
            /\ ~WillRequest
            /\ items = ItemsOfPages(k - 1)
            /\ fpc = "returned" => fetched = ItemsOfPages(k - 1)

\* a failure on a later page, after items were accumulated, and the partial
\* list returned
C2_Witness ==
    /\ Len(responses) = MaxPages
    /\ Fails(responses[Len(responses)])
    /\ fpc = "returned"
    /\ Len(fetched) >= 2

\* the request uses the path as its request path
UsesPath(req, path) == req.url = CLIENT_BASE_URL \o path

\* the request re-sends the token as the cursor parameter
UsesCursor(req, token) == req.cursor = token

\* C3: both continuation dialects.  After a 200 page with a non-empty
\* marker the fetcher issues a following request: with the nextPagePath as the
\* request path, or else with the next token as the cursor parameter.
C3_BothDialects ==
    \A k \in 1..Len(responses) :
        (IsPage(responses[k]) /\ HasMarker(responses[k])) =>
            IF k = Len(responses)
            THEN WillRequest
            ELSE IF Truthy(responses[k].nextPagePath)
                 THEN UsesPath(requests[k + 1], responses[k].nextPagePath)
                 ELSE UsesCursor(requests[k + 1], responses[k].next)

\* C3 for the client alone and for the script alone
C3_ClientBothDialects == impl = "client" => C3_BothDialects
C3_ScriptBothDialects == impl = "script" => C3_BothDialects

\* C18: the rate-limit delay is unconditional.  Every request the fetcher
\* issues is followed by the delay before anything else happens, whether the
\* request ended in a 200 response, another status or a transport error.
C18_DelayAfterEveryRequest ==
    \A i \in 1..Len(log) :
        log[i] = "request" => (i < Len(log) /\ log[i + 1] = "sleep")

\* What the code does satisfy of C18: the delay follows every request that
\* got a response, and no two requests of one fetch are issued without a
\* delay between them.
DelayAfterEveryResponse ==
    /\ \A i \in 1..(Len(log) - 1) : log[i] = "request" => log[i + 1] = "sleep"
    /\ (log # <<>> /\ log[Len(log)] = "request") =>
          /\ responses[Len(responses)].outcome = "exception"
          /\ fpc \in {"done", "returned"}

DelayAfterEveryResponseWitness ==
    /\ fpc = "returned"
    /\ Len(responses) = 2
    /\ responses[2] = HttpError
    /\ log = <<"request", "sleep", "request", "sleep">>

\* a continuation token that is absent, null or the empty string
Falsy(v) == v \in {None, ""}

\* a 200 response with a JSON object that carries no continuation token
IsLastPage(resp) ==
    /\ resp.outcome = "response" /\ resp.status_code = 200
    /\ resp.body = "dict"
    /\ resp.items.type \in {"list", "absent"}
    /\ Falsy(resp.nextPagePath) /\ Falsy(resp.next)

\* C19: infinite-loop guard.  After a 200 response whose continuation token
\* is absent, null or empty the loop ends without another request, also when
\* the server has further pages, and the items of that response are part of
\* the result.
C19_FalsyTokenEndsLoop ==
    \A k \in 1..Len(responses) :
        IsLastPage(responses[k]) =>
            /\ k = Len(responses)
            /\ fpc = "loop" => (impl = "client" /\ Falsy(next_page_path))
            /\ items = ItemsOfPages(k)
            /\ fpc = "returned" => fetched = ItemsOfPages(k)

\* the second page of a longer chain is full and carries an empty token: the
\* fetch returns the items of both pages after two requests
C19_Witness ==
    /\ fpc = "returned"
    /\ Len(responses) = 2 /\ Len(requests) = 2
    /\ MaxPages > 2
    /\ IsLastPage(responses[2])
    /\ responses[2].nextPagePath = ""
    /\ Len(responses[2].items.val) = MaxItems
    /\ Len(fetched) = 2 * MaxItems

----------------------------------------------------------------------------
(* Properties of the normalizer (checked under SpecNorm) *)

HasStatusFilled(order) == order["status"] = JStr("FILLED")
FromOrder(t) == t.recipient = "Trading 212 Markets"
FromDividend(t) == t.recipient = "Trading 212 (Dividende)"
FromCash(t) == t.recipient = "Trading 212 Cash"

FilledOrders == Cardinality({ i \in 1..Len(orders) : HasStatusFilled(orders[i]) })
MadeFromOrders ==
    Cardinality({ i \in 1..Len(all_transactions) : FromOrder(all_transactions[i]) })
MadeFromDividends ==
    Cardinality({ i \in 1..Len(all_transactions) : FromDividend(all_transactions[i]) })
MadeFromCash ==
    Cardinality({ i \in 1..Len(all_transactions) : FromCash(all_transactions[i]) })

\* C4: the assembler produces a Transaction for an order if and only if its
\* status is "FILLED", and exactly one for every dividend and every cash
\* transaction: once the call is over there are as many Transactions of
\* orders as FILLED orders, as many of dividends as dividends and as many of
\* cash transactions as cash transactions.
C4_OnlyFilledOrders ==
    npc # "start" =>
        /\ MadeFromOrders = FilledOrders
        /\ MadeFromDividends = Len(dividends)
        /\ MadeFromCash = Len(transactions)

\* What the code does satisfy of C4: an order that is not FILLED never
\* produces a Transaction, and a call that returns has produced one per
\* FILLED order, dividend and cash transaction.
NeverFromUnfilledOrder ==
    /\ MadeFromOrders <= FilledOrders
    /\ npc = "returned" => C4_OnlyFilledOrders

\* C6: every Transaction the normalizer constructs stores a non-negative
\* amount.
C6_StoredAmountNonNegative ==
    \A i \in 1..Len(all_transactions) : Value(all_transactions[i].amount) >= 0

\* What the code does satisfy of C6: from_transaction stores a magnitude.
CashAmountNonNegative ==
    \A i \in 1..Len(all_transactions) :
        FromCash(all_transactions[i]) => Value(all_transactions[i].amount) >= 0

\* the value of a quantity, price or amount field is a number, or the key is
\* missing (and the default 0 stands in)
Numeric(v) == v.t \in {"num", "absent"}

\* the numeric fields of the raw record are well-formed
WellFormedOrder(o) == Numeric(o["filledQuantity"]) /\ Numeric(o["fillPrice"])
WellFormedAmount(r) == Numeric(r["amount"])

\* the records the assembler processes that are well-formed
WellFormedRecords ==
    Cardinality({ i \in 1..Len(orders) :
                    HasStatusFilled(orders[i]) /\ WellFormedOrder(orders[i]) })
    + Cardinality({ i \in 1..Len(dividends) : WellFormedAmount(dividends[i]) })
    + Cardinality({ i \in 1..Len(transactions) : WellFormedAmount(transactions[i]) })

\* some record the assembler processes has a malformed numeric field
SomeMalformed ==
    \/ \E i \in 1..Len(orders) :
          HasStatusFilled(orders[i]) /\ ~WellFormedOrder(orders[i])
    \/ \E i \in 1..Len(dividends) : ~WellFormedAmount(dividends[i])
    \/ \E i \in 1..Len(transactions) : ~WellFormedAmount(transactions[i])

\* C13: a malformed or missing field never aborts normalization.  Whatever
\* the raw records hold in their quantity, price and amount fields, the call
\* raises nothing and returns at least the Transactions of the well-formed
\* records.
C13_MalformedNeverAborts ==
    npc # "start" =>
        /\ npc = "returned"
        /\ Len(all_transactions) >= WellFormedRecords

\* What the code does: the call raises exactly when a record it processes
\* holds a null or a non-numeric string in a numeric field; a missing key is
\* replaced by its default.
RaisesOnMalformed ==
    /\ npc = "raised" => (SomeMalformed /\ all_transactions = <<>>)
    /\ npc = "returned" => ~SomeMalformed

RaisesOnMalformedWitness ==
    /\ npc = "raised"
    /\ WellFormedRecords >= 1

\* the date fields of the records the assembler processes, in the order of
\* its output
SourceDates ==
    Concat([i \in 1..Len(orders) |->
                IF HasStatusFilled(orders[i]) THEN <<orders[i]["dateCreated"]>>
                ELSE <<>>])
    \o [i \in 1..Len(dividends) |-> dividends[i]["paidOn"]]
    \o [i \in 1..Len(transactions) |-> transactions[i]["date"]]

\* the timestamps the date strings of the model spell
IsParseable(v) == v \in {JStr(IsoWithMillis), JStr(IsoPlain)}
Timestamp(v) ==
    IF v = JStr(IsoWithMillis) THEN [y |-> 2024, m |-> 1, d |-> 31, h |-> 10]
    ELSE [y |-> 2024, m |-> 2, d |-> 1, h |-> 15]

FilledInOrder == SelectSeq(orders, HasStatusFilled)

\* C16: the list the assembler returns is the Transactions of the FILLED
\* orders, then those of all dividends, then those of all cash transactions,
\* each group in the order of its raw records; its length is the number of
\* FILLED orders plus dividends plus cash transactions, and it is empty
\* exactly when that number is zero.
C16_ConcatenationInFetchOrder ==
    npc = "returned" =>
        /\ all_transactions =
              [i \in 1..Len(FilledInOrder) |-> from_order(FilledInOrder[i]).tx]
              \o [i \in 1..Len(dividends) |-> from_dividend(dividends[i]).tx]
              \o [i \in 1..Len(transactions) |-> from_transaction(transactions[i]).tx]
        /\ Len(all_transactions) = FilledOrders + Len(dividends) + Len(transactions)
        /\ all_transactions = <<>> <=>
              FilledOrders + Len(dividends) + Len(transactions) = 0

\* a FILLED order and a dividend: the order's Transaction comes first
C16_Witness ==
    /\ npc = "returned"
    /\ FilledOrders = 1 /\ Len(dividends) = 1
    /\ Len(all_transactions) = 2
    /\ FromOrder(all_transactions[1]) /\ FromDividend(all_transactions[2])

\* two dividends of different tickers, in the order of the raw list
SameGroupOrderWitness ==
    /\ npc = "returned"
    /\ Len(dividends) = 2 /\ dividends[1]["ticker"] # dividends[2]["ticker"]
    /\ all_transactions[1].ticker = JStr("KO")
    /\ all_transactions[2].ticker = JStr("DIV")

\* the Transaction of the i-th cash transaction in the returned list
OfCash(i) == all_transactions[FilledOrders + Len(dividends) + i]

\* the magnitude of a raw amount
RawMagnitude(v) == IF v.n < 0 THEN -v.n ELSE v.n

----------------------------------------------------------------------------
(* Properties of a Transaction's row (checked under SpecRow) *)

Magnitude(f) == IF Value(f) < 0 THEN -Value(f) ELSE Value(f)

\* C5: whatever the sign of the stored amount, the Betrag of the row is <= 0
\* for Buy and Withdrawal and >= 0 for every other kind, and has the
\* magnitude of the stored amount.
C5_SignedBetrag ==
    rpc \in {"row", "formatted"} =>
        /\ tx.transaction_type \in {BUY, WITHDRAWAL} => Value(row["Betrag"]) <= 0
        /\ tx.transaction_type \notin {BUY, WITHDRAWAL} => Value(row["Betrag"]) >= 0
        /\ Magnitude(row["Betrag"]) = Magnitude(tx.amount)

\* a Buy whose stored amount is negative, exported negative
C5_Witness ==
    /\ rpc = "row"
    /\ tx.transaction_type = BUY
    /\ Value(tx.amount) < 0
    /\ Value(row["Betrag"]) = Value(tx.amount)

----------------------------------------------------------------------------
(* Properties of the exporter (checked under SpecExport) *)

\* C7: export() of an empty list returns False and leaves the output file
\* untouched (none is created, an existing one is not overwritten), and the
\* file is written only by a call that returns True.
C7_EmptyExportWritesNothing ==
    /\ \A i \in 1..Len(calls) :
          /\ calls[i].arg = <<>> =>
                /\ calls[i].ret = FALSE
                /\ ~calls[i].wrote
                /\ calls[i].after = calls[i].before
          /\ calls[i].wrote => calls[i].ret = TRUE
          /\ calls[i].after # calls[i].before => calls[i].ret = TRUE
    /\ writes = Cardinality({ i \in 1..Len(calls) : calls[i].ret = TRUE })
    /\ writes = 0 => file = NoFile

\* the second call is given an empty list while the file of the first exists
C7_Witness ==
    /\ Len(calls) = 2
    /\ calls[1].ret = TRUE
    /\ calls[2].arg = <<>>
    /\ calls[2].ret = FALSE
    /\ file # NoFile
    /\ file = calls[1].after

\* b is a rearrangement of a
IsReordering(a, b) ==
    /\ Len(a) = Len(b)
    /\ \E p \in Orderings(Len(a)) : b = [i \in 1..Len(a) |-> a[p[i]]]

\* the two calls were given the same non-empty set of transactions
SameSetTwice ==
    /\ Len(calls) = 2
    /\ calls[1].arg # <<>>
    /\ IsReordering(calls[1].arg, calls[2].arg)

\* the transactions of the list that share a day all yield the same line
SameDaySameLine(ts) ==
    \A i, j \in 1..Len(ts) :
        formatted_date(ts[i]) = formatted_date(ts[j]) =>
            CsvLine(to_finanzblick_row(ts[i])) = CsvLine(to_finanzblick_row(ts[j]))

\* C8 as stated: for every two input orderings of a set of transactions
\* export() writes the same file, also when transactions of different
\* content share a date.
C8_SameOutputForAnyOrder ==
    SameSetTwice => calls[1].after = calls[2].after

\* C8, amended: for every two input orderings of a non-empty set of
\* transactions in which the transactions that share a day all yield the same
\* row, export() writes the same file.
C8_SameOutputWithoutTies ==
    (SameSetTwice /\ SameDaySameLine(calls[1].arg)) =>
        calls[1].after = calls[2].after

\* three transactions on two days, passed in two different orders
C8_Witness ==
    /\ SameSetTwice
    /\ SameDaySameLine(calls[1].arg)
    /\ Len(calls[1].arg) = 3
    /\ calls[1].arg # calls[2].arg
    /\ \E i, j \in 1..3 :
          formatted_date(calls[1].arg[i]) # formatted_date(calls[1].arg[j])
    /\ calls[1].after = calls[2].after

\* the lines a stable descending sort by day leaves the rows of ts in
StableLines(ts) ==
    LET n == Len(ts)
        day(i) == to_datetime(formatted_date(ts[i]))
        p == CHOOSE q \in Orderings(n) :
                \A i, j \in 1..n :
                    i < j => \/ Before(day(q[j]), day(q[i]))
                             \/ day(q[i]) = day(q[j]) /\ q[i] < q[j]
    IN  [i \in 1..n |-> CsvLine(to_finanzblick_row(ts[p[i]]))]

\* C9: the rows are written by date descending, and rows of the same day in
\* the order their transactions have in the input list.
C9_StableDescending ==
    \A i \in 1..Len(calls) :
        calls[i].wrote => calls[i].after.lines = StableLines(calls[i].arg)

\* What the code does satisfy of C9: the lines are in descending order of
\* their Buchungsdatum.
DescendingByDate ==
    \A i \in 1..Len(calls) :
        calls[i].wrote =>
            \A k \in 1..(Len(calls[i].after.lines) - 1) :
                ~Before(to_datetime(calls[i].after.lines[k][1]),
                        to_datetime(calls[i].after.lines[k + 1][1]))

\* the cell of a line under a column of the header
Under(f, line, col) ==
    line[CHOOSE k \in 1..Len(f.header) : f.header[k] = col]

\* C10: every written line carries its transaction's recipient in the
\* recipient column and its description under Verwendungszweck.
C10_RecipientAndDescriptionCopied ==
    \A i \in 1..Len(calls) :
        calls[i].wrote =>
            \A k \in 1..Len(calls[i].after.lines) :
                \E j \in 1..Len(calls[i].arg) :
                    LET line == calls[i].after.lines[k]
                        t == calls[i].arg[j]
                    IN  /\ Under(calls[i].after, line, "Buchungsdatum")
                               = formatted_date(t)
                        /\ Under(calls[i].after, line, COL_EMPFAENGER) = t.recipient
                        /\ Under(calls[i].after, line, "Verwendungszweck")
                               = t.description

\* What the code does satisfy of C10: the description is copied.
DescriptionCopied ==
    \A i \in 1..Len(calls) :
        calls[i].wrote =>
            \A k \in 1..Len(calls[i].after.lines) :
                \E j \in 1..Len(calls[i].arg) :
                    LET line == calls[i].after.lines[k]
                        t == calls[i].arg[j]
                    IN  /\ Under(calls[i].after, line, "Buchungsdatum")
                               = formatted_date(t)
                        /\ Under(calls[i].after, line, "Verwendungszweck")
                               = t.description

----------------------------------------------------------------------------
(* Properties of the application run (checked under SpecApp) *)

\* run() is over: it returned or raised, and the process may have exited
RunOver == apc \in {"returned", "raised", "exited"}

\* the credential variable holds no usable string when run() reads os.environ
Absent(v) == environ[v] \in {None, ""}

\* the lines with which the run reports a failure
FailureReports ==
    { "Failed to load secrets.",
      "ATTENTION: Please set the T212_API_KEY environment variable!" }

\* the run reported a failure, returned the failure code and raised nothing
ReportedFailure ==
    /\ exit_code = 1
    /\ exception = None
    /\ stdout # <<>> /\ stdout[Len(stdout)] \in FailureReports
    /\ apc = "exited" => status = 1

\* C11: when the key or the secret is absent, the run is reported as failed
\* and ends with the failure status, and no HTTP request was issued.
C11_MissingCredentialsFatal ==
    (RunOver /\ (Absent("T212_API_KEY") \/ Absent("T212_API_SECRET")))
        => (ReportedFailure /\ requests = <<>>)

\* What the code does satisfy of C11: an absent key is reported and ends the
\* run with the failure code before any request.
MissingKeyFatal ==
    (RunOver /\ Absent("T212_API_KEY")) => (ReportedFailure /\ requests = <<>>)

MissingKeyWitness ==
    /\ apc = "exited" /\ status = 1
    /\ Absent("T212_API_KEY") /\ ~Absent("T212_API_SECRET")
    /\ keeenv.config /\ keeenv.opens /\ keeenv.database

\* C12: a run whose fetches yielded no transaction at all stops with the
\* failure code, raises nothing, never calls the exporter and writes no file.
C12_EmptyResultCleanStop ==
    (RunOver /\ all_transactions = <<>>) =>
        /\ exit_code = 1
        /\ exception = None
        /\ calls = <<>>
        /\ file = NoFile /\ writes = 0

\* the first request of the fetch of an endpoint
FirstRequestOf(e) ==
    [url |-> CLIENT_BASE_URL \o e \o "?limit=" \o ToString(DEFAULT_PAGE_SIZE),
     limit |-> None, cursor |-> None]

\* C14: in every run that passes the credential check, the first request of
\* each of the three endpoints is issued, in the order orders, dividends, cash
\* transactions, however the earlier fetches ended, and nothing is raised.
C14_EveryEndpointFetched ==
    (RunOver /\ Truthy(api_key)) =>
        /\ exception = None
        /\ \E i, j, k \in 1..Len(requests) :
              /\ i < j /\ j < k
              /\ requests[i] = FirstRequestOf("/api/v0/equity/history/orders")
              /\ requests[j] = FirstRequestOf("/api/v0/history/dividends")
              /\ requests[k] = FirstRequestOf("/api/v0/history/transactions")

\* C20: run() always ends by returning 0 or 1 and never raises; it returns 0
\* exactly when the exporter was called with at least one transaction and
\* wrote the file; with the key present the run reaches the fetch stage.
C20_RunReturnsExitCode ==
    RunOver =>
        /\ exception = None
        /\ exit_code \in {0, 1}
        /\ exit_code = 0 <=>
              (calls # <<>> /\ calls[Len(calls)].arg # <<>> /\ calls[Len(calls)].wrote)
        /\ Truthy(api_key) => requests # <<>>

\* What the code does: the construction of the client raises in every run
\* that passes the key check, so that the fetch stage is never reached; the
\* run returns 1 or raises TypeError, and the process ends with status 1.
ClientNeverConstructed ==
    /\ apc # "fetch"
    /\ requests = <<>>
    /\ RunOver => \/ exit_code = 1 /\ exception = None
                  \/ exit_code = NoCode /\ exception = "TypeError" /\ Truthy(api_key)
    /\ apc = "exited" => status = 1

ClientNeverConstructedWitness ==
    /\ apc = "exited"
    /\ exception = "TypeError"
    /\ ~Absent("T212_API_KEY") /\ ~Absent("T212_API_SECRET")

====
